---- MODULE Spec2Model ----
(***************************************************************************)
(* Model of the "token" command of ocm-cli (cmd/ocm/token/cmd.go).         *)
(*                                                                         *)
(* One invocation of run() is modelled as a sequential state machine: pc   *)
(* is the position inside run(), the other variables are the flags, the    *)
(* locals of run(), the configuration object, what was written to standard *)
(* output and a log of the calls made to the collaborators.                *)
(*                                                                         *)
(* Strings and byte buffers are sequences of integers (ASCII codes and     *)
(* byte values), so that splitting and base64url coding are computed.      *)
(***************************************************************************)
EXTENDS Integers, Sequences, FiniteSets

(***************************************************************************)
(* Bounds of the model.                                                    *)
(***************************************************************************)
\* Arbitrary (non JSON) byte buffers have at most MaxBufLen bytes.
MaxBufLen == 1

\* The byte values arbitrary buffers are made of.
ByteSample == {0, 165}

(***************************************************************************)
(* Generic helpers on sequences.                                           *)
(***************************************************************************)
Range(s) == {s[i] : i \in DOMAIN s}

Drop(s, n) == SubSeq(s, n + 1, Len(s))

Take(s, n) == SubSeq(s, 1, n)

\* Position of the first occurrence of character c in s, 0 when absent.
IndexOf(s, c) ==
  IF c \in Range(s) THEN CHOOSE i \in DOMAIN s : s[i] = c /\ \A j \in 1..(i - 1) : s[j] # c
  ELSE 0

\* strings.Split(s, sep) for a one character separator: always at least one
\* part, the empty string gives one empty part.
RECURSIVE Split(_, _)
Split(s, sep) ==
  LET i == IndexOf(s, sep) IN
  IF i = 0 THEN <<s>> ELSE <<Take(s, i - 1)>> \o Split(Drop(s, i), sep)

(***************************************************************************)
(* encoding/base64: the URL alphabet, RawURLEncoding and URLEncoding.      *)
(***************************************************************************)
B64Alphabet ==
  <<65, 66, 67, 68, 69, 70, 71, 72, 73, 74, 75, 76, 77, 78, 79, 80, 81, 82, 83,
    84, 85, 86, 87, 88, 89, 90, 97, 98, 99, 100, 101, 102, 103, 104, 105, 106,
    107, 108, 109, 110, 111, 112, 113, 114, 115, 116, 117, 118, 119, 120, 121,
    122, 48, 49, 50, 51, 52, 53, 54, 55, 56, 57, 45, 95>>

B64Chars == Range(B64Alphabet)

\* The 6 bit value of an alphabet character.
B64Value(c) == (CHOOSE i \in DOMAIN B64Alphabet : B64Alphabet[i] = c) - 1

B64Char(v) == B64Alphabet[v + 1]

\* The decoders skip carriage returns and line feeds.
StripNewlines(s) == SelectSeq(s, LAMBDA c : c # 10 /\ c # 13)

\* Reference encoder: base64.RawURLEncoding.EncodeToString.
RECURSIVE RawURLEncode(_)
RawURLEncode(b) ==
  IF Len(b) = 0 THEN <<>>
  ELSE IF Len(b) = 1 THEN
    LET v == b[1] * 16 IN <<B64Char(v \div 64), B64Char(v % 64)>>
  ELSE IF Len(b) = 2 THEN
    LET v == (b[1] * 256 + b[2]) * 4 IN
    <<B64Char(v \div 4096), B64Char((v \div 64) % 64), B64Char(v % 64)>>
  ELSE
    LET v == b[1] * 65536 + b[2] * 256 + b[3] IN
    <<B64Char(v \div 262144), B64Char((v \div 4096) % 64),
      B64Char((v \div 64) % 64), B64Char(v % 64)>> \o RawURLEncode(Drop(b, 3))

\* The bytes of a run of alphabet characters whose length is not 1 modulo 4
\* (non strict decoding: the unused trailing bits are dropped).
RECURSIVE DecodeQuanta(_)
DecodeQuanta(s) ==
  IF Len(s) = 0 THEN <<>>
  ELSE IF Len(s) = 2 THEN
    <<(B64Value(s[1]) * 64 + B64Value(s[2])) \div 16>>
  ELSE IF Len(s) = 3 THEN
    LET v == B64Value(s[1]) * 4096 + B64Value(s[2]) * 64 + B64Value(s[3]) IN
    <<v \div 1024, (v \div 4) % 256>>
  ELSE
    LET v == B64Value(s[1]) * 262144 + B64Value(s[2]) * 4096
             + B64Value(s[3]) * 64 + B64Value(s[4]) IN
    <<v \div 65536, (v \div 256) % 256, v % 256>> \o DecodeQuanta(Drop(s, 4))

DecodeError == [ok |-> FALSE, bytes |-> <<>>]

\* base64.RawURLEncoding.DecodeString: no padding character is accepted.
RawURLDecode(seg) ==
  LET t == StripNewlines(seg) IN
  IF Range(t) \subseteq B64Chars /\ Len(t) % 4 # 1
  THEN [ok |-> TRUE, bytes |-> DecodeQuanta(t)]
  ELSE DecodeError

\* Number of '=' characters at the end of s.
RECURSIVE TrailingPad(_)
TrailingPad(s) ==
  IF Len(s) > 0 /\ s[Len(s)] = 61 THEN 1 + TrailingPad(Take(s, Len(s) - 1)) ELSE 0

\* base64.URLEncoding.DecodeString: padding to a multiple of four is required.
PaddedURLDecode(seg) ==
  LET t    == StripNewlines(seg)
      pad  == TrailingPad(t)
      body == Take(t, Len(t) - pad)
  IN
  IF /\ Len(t) % 4 = 0
     /\ pad <= 2
     /\ Range(body) \subseteq B64Chars
     /\ (pad > 0 => Len(body) % 4 = 4 - pad)
  THEN [ok |-> TRUE, bytes |-> DecodeQuanta(body)]
  ELSE DecodeError

\* jwt.DecodeSegment: pads the segment to a multiple of four and decodes it
\* with the padded URL encoding.
DecodeSegment(seg) ==
  LET l == Len(seg) % 4 IN
  PaddedURLDecode(IF l > 0 THEN seg \o [i \in 1..(4 - l) |-> 61] ELSE seg)

(***************************************************************************)
(* encoding/json, as far as jwt.Parser.ParseUnverified uses it: the        *)
(* header is unmarshalled into a map and the claims are decoded into a     *)
(* map.  The recogniser covers the documents the model feeds it: "null"    *)
(* and flat objects of string members without white space, escapes, or     *)
(* ',' and ':' inside the strings; every other buffer the model builds     *)
(* (empty, or made of the bytes of ByteSample) is not JSON at all.         *)
(***************************************************************************)
JSONNull == <<110, 117, 108, 108>>

\* A double quoted string of printable ASCII characters.
IsPlainString(s) ==
  /\ Len(s) >= 2
  /\ s[1] = 34
  /\ s[Len(s)] = 34
  /\ \A i \in 2..(Len(s) - 1) : s[i] \in (32..126) \ {34, 92}

Unquote(s) == SubSeq(s, 2, Len(s) - 1)

IsMember(m) ==
  LET kv == Split(m, 58) IN
  Len(kv) = 2 /\ IsPlainString(kv[1]) /\ IsPlainString(kv[2])

MemberOf(m) ==
  LET kv == Split(m, 58) IN <<Unquote(kv[1]), Unquote(kv[2])>>

JSONError == [ok |-> FALSE, members |-> <<>>]

\* Unmarshalling into a map[string]interface{}: the members of the object, in
\* order; null leaves the map empty; anything else is an error.
UnmarshalMap(b) ==
  IF b = JSONNull THEN [ok |-> TRUE, members |-> <<>>]
  ELSE IF Len(b) >= 2 /\ b[1] = 123 /\ b[Len(b)] = 125 THEN
    LET inner == SubSeq(b, 2, Len(b) - 1)
        ms    == Split(inner, 44)
    IN
    IF Len(inner) = 0 THEN [ok |-> TRUE, members |-> <<>>]
    ELSE IF \A i \in DOMAIN ms : IsMember(ms[i])
    THEN [ok |-> TRUE, members |-> [i \in DOMAIN ms |-> MemberOf(ms[i])]]
    ELSE JSONError
  ELSE JSONError

(***************************************************************************)
(* github.com/dgrijalva/jwt-go                                             *)
(***************************************************************************)
AlgKey == <<97, 108, 103>>

\* The signing methods the library registers: none, HS, RS, ES and PS in
\* their 256, 384 and 512 variants.
SigningMethods ==
  { <<110, 111, 110, 101>>,
    <<72, 83, 50, 53, 54>>, <<72, 83, 51, 56, 52>>, <<72, 83, 53, 49, 50>>,
    <<82, 83, 50, 53, 54>>, <<82, 83, 51, 56, 52>>, <<82, 83, 53, 49, 50>>,
    <<69, 83, 50, 53, 54>>, <<69, 83, 51, 56, 52>>, <<69, 83, 53, 49, 50>>,
    <<80, 83, 50, 53, 54>>, <<80, 83, 51, 56, 52>>, <<80, 83, 53, 49, 50>> }

\* token.Header["alg"].(string): the value of the last "alg" member.
HasAlg(members) == \E i \in DOMAIN members : members[i][1] = AlgKey

AlgOf(members) ==
  LET i == CHOOSE k \in DOMAIN members :
             /\ members[k][1] = AlgKey
             /\ \A j \in (k + 1)..Len(members) : members[j][1] # AlgKey
  IN members[i][2]

\* len(parts) != 3 in ParseUnverified.
WrongSegmentCountSloppy(parts) == Len(parts) < 3

WrongSegmentCount(parts) == Len(parts) # 3

\* jwt.Parser.ParseUnverified(tokenString, jwt.MapClaims{}): splits on '.',
\* requires three segments, a JSON header, JSON claims and a registered
\* signing method in the header; the signature segment is not looked at.
ParseUnverified(tokenString) ==
  LET parts_ == Split(tokenString, 46) IN
  IF WrongSegmentCount(parts_) THEN [err |-> "segments", parts |-> parts_]
  ELSE
    LET hseg == DecodeSegment(parts_[1])
        hdr  == UnmarshalMap(hseg.bytes)
        cseg == DecodeSegment(parts_[2])
        clm  == UnmarshalMap(cseg.bytes)
    IN
    IF ~hseg.ok \/ ~hdr.ok THEN [err |-> "header", parts |-> parts_]
    ELSE IF ~cseg.ok \/ ~clm.ok THEN [err |-> "claims", parts |-> parts_]
    ELSE IF ~HasAlg(hdr.members) THEN [err |-> "unspecified", parts |-> parts_]
    ELSE IF AlgOf(hdr.members) \notin SigningMethods
      THEN [err |-> "unavailable", parts |-> parts_]
    ELSE [err |-> "nil", parts |-> parts_]

(***************************************************************************)
(* The tokens the connection can hand back.                                *)
(***************************************************************************)
HdrNone == <<123, 34, 97, 108, 103, 34, 58, 34, 110, 111, 110, 101, 34, 125>>

HdrHS256 == <<123, 34, 97, 108, 103, 34, 58, 34, 72, 83, 50, 53, 54, 34, 125>>

HdrNoAlg == <<123, 34, 116, 121, 112, 34, 58, 34, 74, 87, 84, 34, 125>>

HdrBadAlg == <<123, 34, 97, 108, 103, 34, 58, 34, 102, 111, 111, 34, 125>>

PayloadSubX == <<123, 34, 115, 117, 98, 34, 58, 34, 120, 34, 125>>

SigBytes == <<115, 105, 103>>

RawBuffers == UNION {[1..n -> ByteSample] : n \in 0..MaxBufLen}

HeaderBuffers == {HdrNone, HdrHS256, HdrNoAlg, HdrBadAlg} \cup RawBuffers

PayloadBuffers == {PayloadSubX, JSONNull} \cup RawBuffers

SignatureBuffers == {SigBytes} \cup RawBuffers

\* The compact serialization of three buffers.
Compact(h, p, s) ==
  RawURLEncode(h) \o <<46>> \o RawURLEncode(p) \o <<46>> \o RawURLEncode(s)

\* <<token, header, payload, signature>> for every triple of buffers.
CompactTable ==
  {<<Compact(h, p, s), h, p, s>> :
     h \in HeaderBuffers, p \in PayloadBuffers, s \in SignatureBuffers}

CompactTokens == {e[1] : e \in CompactTable}

\* "eyJhbGciOiJub25lIn0.eyJzdWIiOiJ4In0.c2ln"
ScenarioToken == Compact(HdrNone, PayloadSubX, SigBytes)

OtherToken == Compact(HdrHS256, PayloadSubX, <<165>>)

\* Tokens that are not the serialization of three buffers: no segment, one,
\* two and four segments, a padded header, a padded payload, a signature
\* with a character outside the alphabet, a signature of one character.
MalformedTokens ==
  LET h == RawURLEncode(HdrNone)
      p == RawURLEncode(PayloadSubX)
      s == RawURLEncode(SigBytes)
  IN { <<>>,
       h,
       h \o <<46>> \o p,
       ScenarioToken \o <<46>> \o s,
       h \o <<61, 46>> \o p \o <<46>> \o s,
       h \o <<46>> \o p \o <<61, 46>> \o s,
       h \o <<46>> \o p \o <<46, 99, 50, 33, 110>>,
       h \o <<46>> \o p \o <<46, 99>> }

Tokens == CompactTokens \cup MalformedTokens

\* The pairs connection.Tokens() returns: any token as the access token next
\* to a well formed refresh token, and the other way round.
TokenPairs ==
  {<<t, OtherToken>> : t \in Tokens} \cup {<<ScenarioToken, t>> : t \in Tokens}

\* The tokens of the configuration file before the command runs.
OldAccess == Compact(HdrNone, JSONNull, <<>>)

OldRefresh == Compact(HdrHS256, JSONNull, <<>>)

(***************************************************************************)
(* State.                                                                  *)
(***************************************************************************)
VARIABLES
  args,           \* the flags: header, payload, signature, refresh
  pc,             \* position inside run()
  result,         \* "running", "nil" or the error run() returned
  cfg,            \* the configuration object returned by config.Load
  armed,          \* what cfg.Armed() answered: "none", "true", "false", "error"
  accessToken,    \* locals of run()
  refreshToken,
  selectedToken,
  parts,
  header,
  payload,
  signature,
  stdout,         \* the writes made to os.Stdout, in order
  calls,          \* number of calls made to each collaborator
  saved,          \* the configuration objects config.Save was called with
  steps           \* the steps of run() executed so far, in order

vars == <<args, pc, result, cfg, armed, accessToken, refreshToken, selectedToken,
          parts, header, payload, signature, stdout, calls, saved, steps>>

locals == <<accessToken, refreshToken, selectedToken, parts, header, payload,
            signature>>

NoCfg == [loaded |-> FALSE, AccessToken |-> <<>>, RefreshToken |-> <<>>]

NoCalls ==
  [load |-> 0, armed |-> 0, connection |-> 0, tokens |-> 0, pretty |-> 0, save |-> 0]

Init ==
  /\ args \in [header : BOOLEAN, payload : BOOLEAN, signature : BOOLEAN,
               refresh : BOOLEAN]
  /\ pc = "validate"
  /\ result = "running"
  /\ cfg = NoCfg
  /\ armed = "none"
  /\ accessToken = <<>>
  /\ refreshToken = <<>>
  /\ selectedToken = <<>>
  /\ parts = <<>>
  /\ header = <<>>
  /\ payload = <<>>
  /\ signature = <<>>
  /\ stdout = <<>>
  /\ calls = NoCalls
  /\ saved = <<>>
  /\ steps = <<>>

\* A step of run() begins.
Step(name) == pc = name /\ steps' = Append(steps, name)

\* The statement order of run() with the parse run only for the modes that
\* need the parts.
ParseWhenNeeded(step, a) ==
  IF step = "select" /\ ~a.header /\ ~a.payload /\ ~a.signature THEN "print"
  ELSE CASE step = "validate" -> "load"
         [] step = "load" -> "armed"
         [] step = "armed" -> "connection"
         [] step = "connection" -> "tokens"
         [] step = "tokens" -> "select"
         [] step = "select" -> "parse"
         [] step = "parse" -> "decodeHeader"
         [] step = "decodeHeader" -> "decodePayload"
         [] step = "decodePayload" -> "decodeSignature"
         [] step = "decodeSignature" -> "print"
         [] step = "print" -> "mutate"
         [] step = "mutate" -> "save"
         [] step = "save" -> "done"

\* The statement order of run() with the configuration saved before the
\* token is printed.
SaveBeforeDisplay(step, a) ==
  CASE step = "validate" -> "load"
    [] step = "load" -> "armed"
    [] step = "armed" -> "connection"
    [] step = "connection" -> "tokens"
    [] step = "tokens" -> "select"
    [] step = "select" -> "parse"
    [] step = "parse" -> "decodeHeader"
    [] step = "decodeHeader" -> "decodePayload"
    [] step = "decodePayload" -> "decodeSignature"
    [] step = "decodeSignature" -> "mutate"
    [] step = "mutate" -> "save"
    [] step = "save" -> "print"
    [] step = "print" -> "done"

\* The statement that follows a step of run() that did not return; the
\* flags a play no part in it.
NextStep(step, a) ==
  CASE step = "validate" -> "load"
    [] step = "load" -> "armed"
    [] step = "armed" -> "connection"
    [] step = "connection" -> "tokens"
    [] step = "tokens" -> "select"
    [] step = "select" -> "parse"
    [] step = "parse" -> "decodeHeader"
    [] step = "decodeHeader" -> "decodePayload"
    [] step = "decodePayload" -> "decodeSignature"
    [] step = "decodeSignature" -> "print"
    [] step = "print" -> "mutate"
    [] step = "mutate" -> "save"
    [] step = "save" -> "done"

\* An error that is recorded without leaving run().
ReturnMissing(err) == pc' = NextStep(pc, args) /\ result' = err

\* return fmt.Errorf(...)
Return(err) == pc' = "done" /\ result' = err

\* Fall through to the next statement.
Continue == pc' = NextStep(pc, args) /\ result' = result

Called(c) == calls' = [calls EXCEPT ![c] = @ + 1]

(***************************************************************************)
(* run()                                                                   *)
(***************************************************************************)
CountFlagsNoSignature(a) ==
  (IF a.header THEN 1 ELSE 0) + (IF a.payload THEN 1 ELSE 0)

\* count, lines 76 to 85.
CountFlags(a) ==
  (IF a.header THEN 1 ELSE 0) + (IF a.payload THEN 1 ELSE 0)
    + (IF a.signature THEN 1 ELSE 0)

MutuallyExclusiveAllThree(a) == CountFlags(a) > 2

\* if count > 1, line 86.
MutuallyExclusive(a) == CountFlags(a) > 1

\* Check the options.
Validate ==
  /\ Step("validate")
  /\ IF MutuallyExclusive(args) THEN Return("ErrMutuallyExclusive") ELSE Continue
  /\ UNCHANGED <<args, cfg, armed, locals, stdout, calls, saved>>

\* Load the configuration file: config.Load() fails, finds no file, or
\* returns the configuration with the tokens of the last run.
Load ==
  /\ Step("load")
  /\ Called("load")
  /\ \E outcome \in {"error", "nil", "cfg"} :
       CASE outcome = "error" -> Return("ErrLoad") /\ cfg' = cfg
         [] outcome = "nil" -> Return("ErrNotLoggedIn") /\ cfg' = cfg
         [] outcome = "cfg" ->
              /\ Continue
              /\ cfg' = [loaded |-> TRUE, AccessToken |-> OldAccess,
                         RefreshToken |-> OldRefresh]
  /\ UNCHANGED <<args, armed, locals, stdout, saved>>

ExpiredIgnored(answer) == FALSE

\* if !armed, line 104.
Expired(answer) == answer = "false"

\* Check that the tokens have not expired: cfg.Armed().
Armed ==
  /\ Step("armed")
  /\ Called("armed")
  /\ \E answer \in {"error", "false", "true"} :
       /\ armed' = answer
       /\ IF answer = "error" THEN Return("ErrArmed")
          ELSE IF Expired(answer) THEN Return("ErrExpired")
          ELSE Continue
  /\ UNCHANGED <<args, cfg, locals, stdout, saved>>

\* Create the connection: cfg.Connection().
Connection ==
  /\ Step("connection")
  /\ Called("connection")
  /\ \E ok \in BOOLEAN : IF ok THEN Continue ELSE Return("ErrConnection")
  /\ UNCHANGED <<args, cfg, armed, locals, stdout, saved>>

\* Get the tokens: connection.Tokens().
GetTokens ==
  /\ Step("tokens")
  /\ Called("tokens")
  /\ \/ /\ Return("ErrTokens")
        /\ UNCHANGED <<accessToken, refreshToken>>
     \/ \E pair \in TokenPairs :
          /\ accessToken' = pair[1]
          /\ refreshToken' = pair[2]
          /\ Continue
  /\ UNCHANGED <<args, cfg, armed, selectedToken, parts, header, payload,
                 signature, stdout, saved>>

SelectAccess(refresh, access, refresh_token) == access

\* selectedToken, lines 121 to 124.
Select(refresh, access, refresh_token) ==
  IF refresh THEN refresh_token ELSE access

\* Select the token according to the options.
SelectToken ==
  /\ Step("select")
  /\ selectedToken' = Select(args.refresh, accessToken, refreshToken)
  /\ Continue
  /\ UNCHANGED <<args, cfg, armed, accessToken, refreshToken, parts, header,
                 payload, signature, stdout, calls, saved>>

\* Parse the token: parser.ParseUnverified, in every mode.
Parse ==
  /\ Step("parse")
  /\ LET r == ParseUnverified(selectedToken) IN
       /\ parts' = r.parts
       /\ IF r.err # "nil" THEN Return("ErrParse") ELSE Continue
  /\ UNCHANGED <<args, cfg, armed, accessToken, refreshToken, selectedToken,
                 header, payload, signature, stdout, calls, saved>>

DecodePartPadded(seg) == PaddedURLDecode(seg)

\* encoding.DecodeString(parts[i]) with encoding = base64.RawURLEncoding.
DecodePart(seg) == RawURLDecode(seg)

DecodeHeader ==
  /\ Step("decodeHeader")
  /\ LET r == DecodePart(parts[1]) IN
       /\ header' = r.bytes
       /\ IF ~r.ok THEN Return("ErrDecodeHeader") ELSE Continue
  /\ UNCHANGED <<args, cfg, armed, accessToken, refreshToken, selectedToken,
                 parts, payload, signature, stdout, calls, saved>>

DecodePayload ==
  /\ Step("decodePayload")
  /\ LET r == DecodePart(parts[2]) IN
       /\ payload' = r.bytes
       /\ IF ~r.ok THEN Return("ErrDecodePayload") ELSE Continue
  /\ UNCHANGED <<args, cfg, armed, accessToken, refreshToken, selectedToken,
                 parts, header, signature, stdout, calls, saved>>

DecodeSignature ==
  /\ Step("decodeSignature")
  /\ LET r == DecodePart(parts[3]) IN
       /\ signature' = r.bytes
       /\ IF ~r.ok THEN Return("ErrDecodeSignature") ELSE Continue
  /\ UNCHANGED <<args, cfg, armed, accessToken, refreshToken, selectedToken,
                 parts, header, payload, stdout, calls, saved>>

\* What dump.Pretty writes for a byte buffer.
Pretty(body) == [kind |-> "pretty", text |-> body]

\* fmt.Fprintf(os.Stdout, "%s\n", selectedToken)
TokenLine(token) == [kind |-> "raw", text |-> token \o <<10>>]

\* err = dump.Pretty(os.Stdout, body), which succeeds or fails.
Dump(body, err) ==
  /\ Called("pretty")
  /\ \E ok \in BOOLEAN :
       IF ok THEN stdout' = Append(stdout, Pretty(body)) /\ Continue
       ELSE stdout' = stdout /\ Return(err)

\* Print the data.
PrintData ==
  /\ Step("print")
  /\ IF args.header THEN Dump(header, "ErrDumpHeader")
     ELSE IF args.payload THEN Dump(payload, "ErrDumpPayload")
     ELSE IF args.signature THEN Dump(signature, "ErrDumpSignature")
     ELSE /\ stdout' = Append(stdout, TokenLine(selectedToken))
          /\ calls' = calls
          /\ Continue
  /\ UNCHANGED <<args, cfg, armed, locals, saved>>

MutatedAccessOnly(c, access, refresh_token) ==
  [c EXCEPT !.AccessToken = access]

\* cfg.AccessToken = accessToken; cfg.RefreshToken = refreshToken
Mutated(c, access, refresh_token) ==
  [c EXCEPT !.AccessToken = access, !.RefreshToken = refresh_token]

Mutate ==
  /\ Step("mutate")
  /\ cfg' = Mutated(cfg, accessToken, refreshToken)
  /\ Continue
  /\ UNCHANGED <<args, armed, locals, stdout, calls, saved>>

\* Save the configuration: config.Save(cfg), then return.
Save ==
  /\ Step("save")
  /\ Called("save")
  /\ saved' = Append(saved, cfg)
  /\ \E ok \in BOOLEAN : IF ok THEN Return("nil") ELSE Return("ErrSave")
  /\ UNCHANGED <<args, cfg, armed, locals, stdout>>

Next ==
  \/ Validate
  \/ Load
  \/ Armed
  \/ Connection
  \/ GetTokens
  \/ SelectToken
  \/ Parse
  \/ DecodeHeader
  \/ DecodePayload
  \/ DecodeSignature
  \/ PrintData
  \/ Mutate
  \/ Save

Spec == Init /\ [][Next]_vars

(***************************************************************************)
(* Vocabulary of the properties.                                           *)
(***************************************************************************)
Executed(name) == \E i \in DOMAIN steps : steps[i] = name

FlagsSet == {f \in {"header", "payload", "signature"} : args[f]}

FullMode == FlagsSet = {}

TokensResolved == calls.tokens = 1 /\ result # "ErrTokens"

LoadedCfg ==
  [loaded |-> TRUE, AccessToken |-> OldAccess, RefreshToken |-> OldRefresh]

DecodeErrors ==
  {"ErrParse", "ErrDecodeHeader", "ErrDecodePayload", "ErrDecodeSignature"}

DumpErrors == {"ErrDumpHeader", "ErrDumpPayload", "ErrDumpSignature"}

DecodeFailed == result \in DecodeErrors

\* The three decodes of run() have all succeeded.
Decoded == Executed("decodeSignature") /\ result # "ErrDecodeSignature"

\* The token the flags ask for.
Wanted == IF args.refresh THEN refreshToken ELSE accessToken

WantedLine == [kind |-> "raw", text |-> Wanted \o <<10>>]

Dots(t) == {i \in DOMAIN t : t[i] = 46}

ThreeSegments(t) == Cardinality(Dots(t)) = 2

HeaderAndPayloadNonEmpty(t) ==
  /\ 1 \notin Dots(t)
  /\ \A i \in Dots(t) : i + 1 \in Dots(t) => i # CHOOSE k \in Dots(t) : \A j \in Dots(t) : k <= j

SignatureNonEmpty(t) == Len(t) \notin Dots(t)

\* Headers that are a JSON object naming a registered signing method, and
\* payloads that are a JSON object or null.
JWTHeaders == {HdrNone, HdrHS256}

JWTPayloads == {PayloadSubX, JSONNull}

JWTTokens ==
  {e[1] : e \in {x \in CompactTable : x[2] \in JWTHeaders /\ x[3] \in JWTPayloads}}

\* The place of each step in run(), and the stage of the pipeline it is
\* part of.
StepRank(name) ==
  CASE name = "validate" -> 1
    [] name = "load" -> 2
    [] name = "armed" -> 3
    [] name = "connection" -> 4
    [] name = "tokens" -> 5
    [] name = "select" -> 6
    [] name = "parse" -> 7
    [] name = "decodeHeader" -> 8
    [] name = "decodePayload" -> 9
    [] name = "decodeSignature" -> 10
    [] name = "print" -> 11
    [] name = "mutate" -> 12
    [] name = "save" -> 13

FailingStep(err) ==
  CASE err = "ErrMutuallyExclusive" -> "validate"
    [] err \in {"ErrLoad", "ErrNotLoggedIn"} -> "load"
    [] err \in {"ErrArmed", "ErrExpired"} -> "armed"
    [] err = "ErrConnection" -> "connection"
    [] err = "ErrTokens" -> "tokens"
    [] err = "ErrParse" -> "parse"
    [] err = "ErrDecodeHeader" -> "decodeHeader"
    [] err = "ErrDecodePayload" -> "decodePayload"
    [] err = "ErrDecodeSignature" -> "decodeSignature"
    [] err \in DumpErrors -> "print"
    [] err = "ErrSave" -> "save"

(***************************************************************************)
(* Properties.                                                             *)
(***************************************************************************)
\* C1: once the options have been checked, the combination of header,
\* payload and signature was accepted (run() went on to load the
\* configuration) exactly when at most one of the three is set, and was
\* otherwise rejected with the mutual exclusivity error.
C1_ValidateAcceptsAtMostOne ==
  pc # "validate" =>
    /\ Cardinality(FlagsSet) <= 1 =>
         result # "ErrMutuallyExclusive" /\ (pc = "load" \/ Executed("load"))
    /\ Cardinality(FlagsSet) > 1 =>
         result = "ErrMutuallyExclusive" /\ pc = "done"

C1_Witness ==
  /\ pc = "done"
  /\ result = "ErrMutuallyExclusive"
  /\ FlagsSet = {"payload", "signature"}

\* C2: a run with more than one of header, payload, signature set ends in
\* failure without a single call to a collaborator: nothing is loaded, no
\* armed check, no connection, no tokens, nothing written, nothing saved.
C2_InvalidFlagsNoCalls ==
  Cardinality(FlagsSet) > 1 =>
    /\ calls = NoCalls
    /\ cfg = NoCfg
    /\ armed = "none"
    /\ stdout = <<>>
    /\ saved = <<>>
    /\ pc \in {"validate", "done"}
    /\ pc = "done" => result = "ErrMutuallyExclusive"

C2_Witness ==
  /\ pc = "done"
  /\ FlagsSet = {"header", "payload"}
  /\ calls = NoCalls

\* C3 as claimed: every finished run in which the tokens were resolved has
\* called config.Save exactly once, with both resolved tokens.
C3_SavedAfterEveryResolution ==
  (pc = "done" /\ TokensResolved) =>
    /\ Len(saved) = 1
    /\ saved[1].AccessToken = accessToken
    /\ saved[1].RefreshToken = refreshToken

\* C3 amended: config.Save is called at most once and always with both
\* resolved tokens in the configuration; a finished run in which the tokens
\* were resolved and neither the parse, a decode nor the dump failed has
\* called it exactly once, whatever the mode and the refresh flag; a run in
\* which one of these failed has not called it.
C3_SavedAfterSuccessfulDisplay ==
  /\ Len(saved) <= 1
  /\ calls.save = Len(saved)
  /\ \A i \in DOMAIN saved :
       /\ saved[i].AccessToken = accessToken
       /\ saved[i].RefreshToken = refreshToken
  /\ (pc = "done" /\ TokensResolved) =>
       IF result \in DecodeErrors \cup DumpErrors THEN saved = <<>>
       ELSE Len(saved) = 1

C3_Witness ==
  /\ pc = "done"
  /\ result = "nil"
  /\ args.refresh
  /\ args.header
  /\ accessToken # refreshToken
  /\ Len(saved) = 1
  /\ saved[1].RefreshToken = refreshToken

\* C4: when the configuration loads and the armed check answers false, the
\* run ends with the "tokens have expired" error, nothing is written, no
\* connection is made, no tokens are resolved, and the configuration is
\* neither changed nor saved.
C4_NotArmedStops ==
  armed = "false" =>
    /\ pc = "done"
    /\ result = "ErrExpired"
    /\ stdout = <<>>
    /\ calls.connection = 0
    /\ calls.tokens = 0
    /\ cfg = LoadedCfg
    /\ saved = <<>>

C4_Witness == armed = "false" /\ pc = "done" /\ calls.armed = 1

\* C5: the selected token is the access token without the refresh flag and
\* the refresh token with it; a successful run in full mode has written
\* exactly that token followed by a newline.
C5_SelectedTokenIsDisplayed ==
  /\ Executed("select") => selectedToken = Wanted
  /\ (pc = "done" /\ result = "nil" /\ FullMode) => stdout = <<WantedLine>>

C5_Witness ==
  /\ pc = "done"
  /\ result = "nil"
  /\ FullMode
  /\ args.refresh
  /\ accessToken # refreshToken
  /\ stdout = <<[kind |-> "raw", text |-> refreshToken \o <<10>>]>>

C7_ThreeNonEmptySegments ==
  /\ Decoded =>
       /\ ThreeSegments(selectedToken)
       /\ HeaderAndPayloadNonEmpty(selectedToken)
       /\ SignatureNonEmpty(selectedToken)
  /\ DecodeFailed => pc = "done" /\ stdout = <<>>

\* C7 amended: the decoding succeeds only for a token of exactly three
\* segments whose header and payload segments are non-empty (the signature
\* segment may be empty), and a failed decoding ends the run with nothing
\* written.
C7_ThreeSegmentsHeaderPayloadNonEmpty ==
  /\ Decoded =>
       /\ ThreeSegments(selectedToken)
       /\ HeaderAndPayloadNonEmpty(selectedToken)
  /\ DecodeFailed => pc = "done" /\ stdout = <<>>

C7_Witness ==
  /\ pc = "done"
  /\ result = "nil"
  /\ Decoded
  /\ parts[3] = <<>>
  /\ signature = <<>>

\* C8 as claimed: a finished run in full mode in which the tokens were
\* resolved never parsed the token, wrote it verbatim and saved the
\* configuration, well formed or not.
C8_FullModeSkipsDecode ==
  (pc = "done" /\ FullMode /\ TokensResolved) =>
    /\ ~Executed("parse")
    /\ stdout = <<WantedLine>>
    /\ Len(saved) = 1

\* C8 amended: the token is parsed and decoded in every mode; a finished run
\* in full mode in which the tokens were resolved has written the selected
\* token verbatim and saved the configuration when the parse and the three
\* decodes succeeded, and has written nothing and saved nothing when one of
\* them failed, which is the case of every token that is not a well formed
\* three segment token.
C8_FullModeDecodesFirst ==
  (pc = "done" /\ FullMode /\ TokensResolved) =>
    /\ Executed("parse")
    /\ selectedToken \notin JWTTokens => DecodeFailed
    /\ IF DecodeFailed THEN stdout = <<>> /\ saved = <<>>
       ELSE stdout = <<WantedLine>> /\ Len(saved) = 1

C8_Witness ==
  /\ pc = "done"
  /\ FullMode
  /\ TokensResolved
  /\ ~ThreeSegments(selectedToken)
  /\ result = "ErrParse"
  /\ stdout = <<>>

\* C9: the steps of run() execute at most once each and in the order of the
\* pipeline; a run is over as soon as it has a result; the step that failed
\* is the last one executed; a failure up to the rendering leaves the
\* configuration as loaded and config.Save uncalled.
C9_StagesInOrderAndHalt ==
  /\ \A i, j \in DOMAIN steps : i < j => StepRank(steps[i]) < StepRank(steps[j])
  /\ result # "running" <=> pc = "done"
  /\ result \notin {"running", "nil"} =>
       /\ steps[Len(steps)] = FailingStep(result)
       /\ result # "ErrSave" =>
            /\ ~Executed("mutate")
            /\ ~Executed("save")
            /\ cfg \in {NoCfg, LoadedCfg}
            /\ calls.save = 0
            /\ saved = <<>>

C9_Witness ==
  /\ pc = "done"
  /\ result = "ErrDumpPayload"
  /\ cfg = LoadedCfg
  /\ accessToken # OldAccess

\* C10: nothing is written twice; when config.Save is about to be called,
\* and ever after, exactly one rendering has been written; a run that ends
\* with the save error still has that one rendering on standard output.
C10_DisplayBeforeSave ==
  /\ Len(stdout) <= 1
  /\ pc \in {"mutate", "save"} => Len(stdout) = 1
  /\ calls.save > 0 => Len(stdout) = 1
  /\ result = "ErrSave" => pc = "done" /\ calls.save = 1 /\ Len(stdout) = 1

C10_Witness ==
  /\ pc = "done"
  /\ result = "ErrSave"
  /\ args.signature
  /\ stdout = <<[kind |-> "pretty", text |-> signature]>>
====
